---------------------------- MODULE Spec2Model ----------------------------
(***************************************************************************)
(* Model of streamlit_app.py: the challenge catalog and scoring engine     *)
(* (class LegacyJavaCodeChallenge) and the Streamlit script main() that    *)
(* drives them.                                                            *)
(*                                                                         *)
(* Representation choices:                                                 *)
(*  - A Python str that is only compared for equality is a TLA+ string.    *)
(*    A str that is passed through str.lower() (the difficulty) is a       *)
(*    sequence of one-character strings, so that lower() is computed.      *)
(*  - A float produced by the score arithmetic is an exact rational        *)
(*    <<numerator, denominator>>; the float returned by round(x, 2) is     *)
(*    the integer number of hundredths (1.0 is 100, 0.62 is 62).  With     *)
(*    the catalog's denominators (7 and 3) no total lies within float      *)
(*    error of a rounding boundary, so the rational rounding and the       *)
(*    float rounding agree.                                                *)
(*  - None is a sentinel record of the shape of a catalog record.          *)
(***************************************************************************)
EXTENDS Integers, Sequences, FiniteSets, TLC

VARIABLES
    \* ---- one call of the core API (arguments, locals, result) ----
    pc,              \* "idle", "evaluate_response", "get_challenge_by_difficulty", "main"
    challenge_id,    \* evaluate_response: argument
    requirements,    \* evaluate_response: argument (list of str)
    bugs,            \* evaluate_response: argument (list of str)
    improvements,    \* evaluate_response: argument (list of str)
    req_score,       \* evaluate_response: local, rational
    bug_score,       \* evaluate_response: local, rational
    imp_score,       \* evaluate_response: local, rational
    total_score,     \* evaluate_response: returned value, in hundredths
    raised,          \* exception that left the call ("" when it returned)
    difficulty_arg,  \* get_challenge_by_difficulty: argument (sequence of characters)
    selected,        \* get_challenge_by_difficulty: returned record or None
    \* ---- st.session_state ----
    challenge,
    show_hints,
    submitted,
    candidate_email,
    team_name,
    start_time,
    time_up,
    difficulty,
    \* ---- environment and effects of one script run ----
    now,             \* datetime.now(), in ticks of TickMinutes minutes
    sheet_saved,     \* main: local, result of save_to_google_sheet
    email_sent,      \* main: local, result of send_email_with_pdf
    channel_log,     \* the output channels the last script run called, in order
    message,         \* the outcome message the last script run displayed
    scored_since_get \* calls of evaluate_response since the last Get Challenge

callVars == <<pc, challenge_id, requirements, bugs, improvements, req_score,
              bug_score, imp_score, total_score, raised, difficulty_arg, selected>>
sessionVars == <<challenge, show_hints, submitted, candidate_email, team_name,
                 start_time, time_up, difficulty>>
runVars == <<sheet_saved, email_sent, channel_log, message>>
vars == <<callVars, sessionVars, runVars, now, scored_since_get>>

-----------------------------------------------------------------------------
(* Bounds of the model *)

MaxReqLen == 2     \* longest free-form requirements list
MaxExtra == 1      \* entries appended to a full answer key
MaxBugs == 3       \* longest bugs list
MaxImps == 3       \* longest improvements list
MaxClock == 5      \* last clock tick
TickMinutes == 15  \* minutes per clock tick

TimeLimit == 45    \* display_timer(st.session_state.start_time, 45)

-----------------------------------------------------------------------------
(* Strings *)

Easy == <<"E", "a", "s", "y">>
Hard == <<"H", "a", "r", "d">>

\* str.lower() on one character, for the characters the model uses
LowerChar(ch) ==
    CASE ch = "E" -> "e"
      [] ch = "A" -> "a"
      [] ch = "S" -> "s"
      [] ch = "Y" -> "y"
      [] ch = "H" -> "h"
      [] ch = "R" -> "r"
      [] ch = "D" -> "d"
      [] OTHER -> ch

\* str.lower()
Lower(s) == [i \in DOMAIN s |-> LowerChar(s[i])]

Range(f) == {f[i] : i \in DOMAIN f}

SeqsUpTo(S, n) == UNION {[1..k -> S] : k \in 0..n}

-----------------------------------------------------------------------------
(* Rational arithmetic standing for the float arithmetic of the scoring *)

Rat(n, d) == <<n, d>>
RMul(a, b) == <<a[1] * b[1], a[2] * b[2]>>
RAdd(a, b) == <<a[1] * b[2] + b[1] * a[2], a[2] * b[2]>>
RLess(a, b) == a[1] * b[2] < b[1] * a[2]
REq(a, b) == a[1] * b[2] = b[1] * a[2]
\* min(a, b) of Python: b only when b < a
RMin(a, b) == IF RLess(b, a) THEN b ELSE a

\* round(x, 2), as a number of hundredths; a tie goes to the even neighbour
round2(x) ==
    LET q == (100 * x[1]) \div x[2]
        r == (100 * x[1]) % x[2]
    IN  IF 2 * r < x[2] THEN q
        ELSE IF 2 * r > x[2] THEN q + 1
        ELSE IF q % 2 = 0 THEN q ELSE q + 1

-----------------------------------------------------------------------------
(* class LegacyJavaCodeChallenge *)

None == [id |-> 0, name |-> "None", difficulty |-> <<>>,
         expected_requirements |-> <<>>]

code_samples ==
    << [id |-> 1, name |-> "Simple Calculator", difficulty |-> Easy,
        expected_requirements |->
          << "Addition with overflow check",
             "Subtraction with underflow check",
             "Division with zero check",
             "Multiplication with overflow check",
             "Power function with validation",
             "Input validation for all methods",
             "Proper method documentation" >>],
       [id |-> 2, name |-> "Multi-Layer Authentication System", difficulty |-> Hard,
        expected_requirements |->
          << "Case-sensitive password validation",
             "OTP should be 6 digits with timeout",
             "Proper biometric verification implementation",
             "Failed login attempt logging",
             "Minimum 2FA requirement for sensitive operations",
             "Null checks for required parameters",
             "Thread-safe implementation" >>] >>

evaluation_criteria_skewed ==
    [correct_requirements |-> Rat(5, 10),
     identified_bugs |-> Rat(3, 10),
     code_improvements |-> Rat(1, 10)]

evaluation_criteria ==
    [correct_requirements |-> Rat(5, 10),
     identified_bugs |-> Rat(4, 10),
     code_improvements |-> Rat(1, 10)]

filtered_exact(d) == SelectSeq(code_samples, LAMBDA c : c.difficulty = d)

\* [c for c in self.code_samples if c['difficulty'].lower() == difficulty.lower()]
filtered(d) == SelectSeq(code_samples, LAMBDA c : Lower(c.difficulty) = Lower(d))

\* the values random.choice(filtered) if filtered else None can return
get_challenge_by_difficulty(d) ==
    IF filtered(d) # <<>> THEN Range(filtered(d)) ELSE {None}

next_or_first(id) ==
    LET m == SelectSeq(code_samples, LAMBDA c : c.id = id)
    IN  IF m = <<>> THEN [raised |-> "", value |-> code_samples[1]]
        ELSE [raised |-> "", value |-> Head(m)]

\* next(c for c in self.code_samples if c['id'] == challenge_id)
next_challenge(id) ==
    LET m == SelectSeq(code_samples, LAMBDA c : c.id = id)
    IN  IF m = <<>> THEN [raised |-> "StopIteration", value |-> None]
        ELSE [raised |-> "", value |-> Head(m)]

req_matches_penalised(reqs, c) ==
    LET hit == Cardinality({i \in DOMAIN reqs : reqs[i] \in Range(c.expected_requirements)})
        miss == Len(reqs) - hit
    IN  IF hit > miss THEN hit - miss ELSE 0

\* sum(1 for req in requirements if req in challenge['expected_requirements'])
req_matches(reqs, c) ==
    Cardinality({i \in DOMAIN reqs : reqs[i] \in Range(c.expected_requirements)})

count_score_off_by_one(entries) == RMin(Rat(1, 1), Rat(Len(entries) + 1, 3))

count_score_of_four(entries) == RMin(Rat(1, 1), Rat(Len(entries), 4))

\* min(1.0, len(entries) / 3)
count_score(entries) == RMin(Rat(1, 1), Rat(Len(entries), 3))

\* the body of evaluate_response after the lookup succeeded
score_of(c, reqs, bgs, imps) ==
    LET rs == Rat(req_matches(reqs, c), Len(c.expected_requirements))
        bs == count_score(bgs)
        is == count_score(imps)
        total == RAdd(RAdd(RMul(rs, evaluation_criteria.correct_requirements),
                           RMul(bs, evaluation_criteria.identified_bugs)),
                      RMul(is, evaluation_criteria.code_improvements))
    IN  [raised |-> "", req_score |-> rs, bug_score |-> bs, imp_score |-> is,
         total_score |-> round2(total)]

NoScore == [raised |-> "StopIteration", req_score |-> Rat(0, 1), bug_score |-> Rat(0, 1),
            imp_score |-> Rat(0, 1), total_score |-> 0]

evaluate_response(id, reqs, bgs, imps) ==
    LET found == next_challenge(id)
    IN  IF found.raised # "" THEN NoScore
        ELSE score_of(found.value, reqs, bgs, imps)

-----------------------------------------------------------------------------
(* The inputs the callers of the core are drawn from *)

ReqPool == {"Division with zero check", "division with zero check",
            "Thread-safe implementation"}
BugPool == {"b1", "b2"}
ImpPool == {"i1", "i2"}

IdInputs == {1, 2, 3}

\* short free-form lists, and every full answer key followed by a few more entries
RequirementInputs ==
    SeqsUpTo(ReqPool, MaxReqLen) \cup
    {code_samples[k].expected_requirements \o t :
        k \in DOMAIN code_samples, t \in SeqsUpTo(ReqPool, MaxExtra)}
BugInputs == SeqsUpTo(BugPool, MaxBugs)
ImpInputs == SeqsUpTo(ImpPool, MaxImps)

DifficultyInputs ==
    {Easy, Hard, <<"e", "a", "s", "y">>, <<"E", "A", "S", "Y">>,
     <<"h", "A", "r", "D">>, <<"E", "a", "s">>, <<"H", "a", "r", "d", "y">>,
     <<"M", "e", "d", "i", "u", "m">>, <<>>}

-----------------------------------------------------------------------------
(* Initial state: the object is constructed, the session state initialised *)

NoTime == -1

IdleCall ==
    /\ challenge_id = 0
    /\ requirements = <<>>
    /\ bugs = <<>>
    /\ improvements = <<>>
    /\ req_score = Rat(0, 1)
    /\ bug_score = Rat(0, 1)
    /\ imp_score = Rat(0, 1)
    /\ total_score = 0
    /\ raised = ""
    /\ difficulty_arg = <<>>
    /\ selected = None

InitSession ==
    /\ challenge = None
    /\ show_hints = FALSE
    /\ submitted = FALSE
    /\ candidate_email = ""
    /\ team_name = ""
    /\ start_time = NoTime
    /\ time_up = FALSE
    /\ difficulty = Easy

InitRun ==
    /\ sheet_saved = "unset"
    /\ email_sent = "unset"
    /\ channel_log = <<>>
    /\ message = ""

Init ==
    /\ pc = "idle"
    /\ IdleCall
    /\ InitSession
    /\ InitRun
    /\ now = 0
    /\ scored_since_get = 0

\* the arguments, locals and result of a call are gone once the caller drops them
ClearCall ==
    /\ challenge_id' = 0
    /\ requirements' = <<>>
    /\ bugs' = <<>>
    /\ improvements' = <<>>
    /\ req_score' = Rat(0, 1)
    /\ bug_score' = Rat(0, 1)
    /\ imp_score' = Rat(0, 1)
    /\ total_score' = 0
    /\ raised' = ""
    /\ difficulty_arg' = <<>>
    /\ selected' = None

-----------------------------------------------------------------------------
(* The core API called directly: one call at a time, the result discarded *)

SetEvaluation(id, reqs, bgs, imps) ==
    LET r == evaluate_response(id, reqs, bgs, imps)
    IN  /\ challenge_id' = id
        /\ requirements' = reqs
        /\ bugs' = bgs
        /\ improvements' = imps
        /\ req_score' = r.req_score
        /\ bug_score' = r.bug_score
        /\ imp_score' = r.imp_score
        /\ total_score' = r.total_score
        /\ raised' = r.raised

CallEvaluate ==
    /\ pc = "idle"
    /\ \E id \in IdInputs, reqs \in RequirementInputs,
          bgs \in BugInputs, imps \in ImpInputs :
            SetEvaluation(id, reqs, bgs, imps)
    /\ pc' = "evaluate_response"
    /\ UNCHANGED <<difficulty_arg, selected, sessionVars, runVars, now, scored_since_get>>

CallSelect ==
    /\ pc = "idle"
    /\ \E d \in DifficultyInputs :
        /\ difficulty_arg' = d
        /\ selected' \in get_challenge_by_difficulty(d)
    /\ pc' = "get_challenge_by_difficulty"
    /\ UNCHANGED <<challenge_id, requirements, bugs, improvements, req_score, bug_score,
                   imp_score, total_score, raised, sessionVars, runVars, now,
                   scored_since_get>>

\* the caller drops the result; the core keeps nothing between calls
Discard ==
    /\ pc \in {"evaluate_response", "get_challenge_by_difficulty"}
    /\ pc' = "idle"
    /\ ClearCall
    /\ UNCHANGED <<sessionVars, runVars, now, scored_since_get>>

Next == CallEvaluate \/ CallSelect \/ Discard

Spec == Init /\ [][Next]_vars

-----------------------------------------------------------------------------
(* The output channels and the timer *)

\* save_to_google_sheet: every failure inside it is caught and becomes False
save_to_google_sheet(sheet_ok) ==
    [raised |-> "", value |-> IF sheet_ok THEN "True" ELSE "False"]

\* send_email_with_pdf: create_pdf and the message are built before the try
\* block, only the SMTP conversation is inside it
send_email_with_pdf(pdf_ok, smtp_ok) ==
    IF ~pdf_ok THEN [raised |-> "Exception", value |-> "unset"]
    ELSE [raised |-> "", value |-> IF smtp_ok THEN "True" ELSE "False"]

\* the if/elif chain on (sheet_saved, email_sent)
outcome_message(saved, sent) ==
    IF saved = "True" /\ sent = "True" THEN "saved and emailed"
    ELSE IF saved # "True" /\ sent = "True" THEN "email sent but sheet save failed"
    ELSE IF saved = "True" /\ sent # "True" THEN "saved but email failed"
    ELSE "both failed"

\* display_timer(start_time, limit)[0], called only when start_time is set
display_timer(start, limit) == limit - (now - start) * TickMinutes <= 0

\* st.session_state.time_up after the timer block at the top of main()
TimerChecked ==
    IF start_time # NoTime /\ display_timer(start_time, TimeLimit) THEN TRUE
    ELSE time_up

FormShownIgnoringTimer(tu) == challenge # None /\ ~submitted

\* the condition under which the response form is rendered
FormShown(tu) == challenge # None /\ ~submitted /\ ~tu

\* str.strip() on the lines the model types into the text areas
strip(line) ==
    CASE line = "   " -> ""
      [] line = " Division with zero check " -> "Division with zero check"
      [] OTHER -> line

\* [r.strip() for r in text.split('\n') if r.strip()], text given as its lines
split_lines(text) ==
    SelectSeq([i \in DOMAIN text |-> strip(text[i])], LAMBDA l : l # "")

RequirementTexts ==
    {<<"">>, <<" Division with zero check ", "   ", "Division with zero check">>}
BugTexts == {<<"">>, <<"no zero check", "">>}
ImprovementTexts == {<<"">>, <<"add javadoc">>}
NameInputs == {"", "Team A"}
EmailInputs == {"", "a@example.org"}

-----------------------------------------------------------------------------
(* main(): every action is one run of the script, triggered by one UI event *)

ClearRun ==
    /\ sheet_saved' = "unset"
    /\ email_sent' = "unset"
    /\ channel_log' = <<>>
    /\ message' = ""

\* a run in which no button is pressed: only the timer block changes state
PlainRun ==
    /\ pc' = "main"
    /\ time_up' = TimerChecked
    /\ ClearCall
    /\ ClearRun

Rerun ==
    /\ PlainRun
    /\ UNCHANGED <<challenge, show_hints, submitted, candidate_email, team_name,
                   start_time, difficulty, now, scored_since_get>>

EditTeamName ==
    /\ PlainRun
    /\ \E v \in NameInputs : v # team_name /\ team_name' = v
    /\ UNCHANGED <<challenge, show_hints, submitted, candidate_email,
                   start_time, difficulty, now, scored_since_get>>

EditEmail ==
    /\ PlainRun
    /\ \E v \in EmailInputs : v # candidate_email /\ candidate_email' = v
    /\ UNCHANGED <<challenge, show_hints, submitted, team_name,
                   start_time, difficulty, now, scored_since_get>>

SelectDifficulty ==
    /\ PlainRun
    /\ \E d \in {Easy, Hard} : d # difficulty /\ difficulty' = d
    /\ UNCHANGED <<challenge, show_hints, submitted, candidate_email, team_name,
                   start_time, now, scored_since_get>>

GetChallenge ==
    /\ pc' = "main"
    /\ challenge' \in get_challenge_by_difficulty(difficulty)
    /\ show_hints' = FALSE
    /\ submitted' = FALSE
    /\ start_time' = now
    /\ time_up' = FALSE
    /\ scored_since_get' = 0
    /\ ClearCall
    /\ ClearRun
    /\ UNCHANGED <<candidate_email, team_name, difficulty, now>>

ToggleHints ==
    /\ challenge # None
    /\ PlainRun
    /\ show_hints' = ~show_hints
    /\ UNCHANGED <<challenge, submitted, candidate_email, team_name,
                   start_time, difficulty, now, scored_since_get>>

\* Submit Analysis pressed without team name or email: st.error, st.stop()
SubmitRejected ==
    /\ FormShown(TimerChecked)
    /\ team_name = "" \/ candidate_email = ""
    /\ pc' = "main"
    /\ time_up' = TimerChecked
    /\ ClearCall
    /\ sheet_saved' = "unset"
    /\ email_sent' = "unset"
    /\ channel_log' = <<>>
    /\ message' = "provide both team name and email"
    /\ UNCHANGED <<challenge, show_hints, submitted, candidate_email, team_name,
                   start_time, difficulty, now, scored_since_get>>

\* Submit Analysis pressed with both given: score, save, send, report
SubmitAnalysis ==
    /\ FormShown(TimerChecked)
    /\ team_name # "" /\ candidate_email # ""
    /\ pc' = "main"
    /\ time_up' = TimerChecked
    /\ submitted' = TRUE
    /\ scored_since_get' = scored_since_get + 1
    /\ difficulty_arg' = <<>>
    /\ selected' = None
    /\ \E rt \in RequirementTexts, bt \in BugTexts, it \in ImprovementTexts :
          SetEvaluation(challenge.id, split_lines(rt), split_lines(bt), split_lines(it))
    /\ \E sheet_ok \in BOOLEAN, pdf_ok \in BOOLEAN, smtp_ok \in BOOLEAN :
          LET saved == save_to_google_sheet(sheet_ok)
              sent == send_email_with_pdf(pdf_ok, smtp_ok)
          IN  IF raised' # ""   \* evaluate_response raised: the run ends at the call
              THEN /\ sheet_saved' = "unset"
                   /\ email_sent' = "unset"
                   /\ channel_log' = <<>>
                   /\ message' = "uncaught exception"
              ELSE /\ sheet_saved' = saved.value
                   /\ email_sent' = sent.value
                   /\ channel_log' = <<"save_to_google_sheet", "send_email_with_pdf">>
                   /\ message' = IF sent.raised # "" THEN "uncaught exception"
                                 ELSE outcome_message(saved.value, sent.value)
    /\ UNCHANGED <<challenge, show_hints, candidate_email, team_name,
                   start_time, difficulty, now>>

TryAnotherChallenge ==
    /\ submitted
    /\ pc' = "main"
    /\ time_up' = TimerChecked
    /\ challenge' = None
    /\ show_hints' = FALSE
    /\ submitted' = FALSE
    /\ ClearCall
    /\ ClearRun
    /\ UNCHANGED <<candidate_email, team_name, start_time, difficulty, now,
                   scored_since_get>>

Tick ==
    /\ now < MaxClock
    /\ now' = now + 1
    /\ UNCHANGED <<callVars, sessionVars, runVars, scored_since_get>>

NextUI ==
    \/ Rerun
    \/ EditTeamName
    \/ EditEmail
    \/ SelectDifficulty
    \/ GetChallenge
    \/ ToggleHints
    \/ SubmitRejected
    \/ SubmitAnalysis
    \/ TryAnotherChallenge
    \/ Tick

SpecUI == Init /\ [][NextUI]_vars

-----------------------------------------------------------------------------
(* Properties of the core API, checked under Spec *)

Evaluated == pc = "evaluate_response"
Returned == Evaluated /\ raised = ""
CatalogIds == {code_samples[k].id : k \in DOMAIN code_samples}
KeyOf(id) == (CHOOSE c \in Range(code_samples) : c.id = id).expected_requirements
ScoreOfCall(reqs, bgs, imps) ==
    evaluate_response(challenge_id, reqs, bgs, imps).total_score

\* C1: for every catalog id and every three lists, repeated entries included,
\* evaluate_response returns a value in the closed range [0, 1].
C1_ScoreInUnitRange ==
    Returned => (0 <= total_score /\ total_score <= 100)

\* C2: a correct requirement submitted twice scores the same as submitted once:
\* evaluate_response with [r, r] returns what it returns with [r].
C2_DuplicateScoresAsSingle ==
    (Returned /\ Len(requirements) = 1 /\ requirements[1] \in Range(KeyOf(challenge_id)))
        => ScoreOfCall(requirements \o requirements, bugs, improvements) = total_score

\* C3: for every challenge, the full answer key (each entry once) with three bug
\* entries and three improvement entries scores exactly 1.0.
C3_FullAnswerScoresOne ==
    (Returned /\ requirements = KeyOf(challenge_id)
              /\ Len(bugs) = 3 /\ Len(improvements) = 3)
        => total_score = 100

C3_Witness ==
    /\ Returned
    /\ challenge_id = 2
    /\ requirements = code_samples[2].expected_requirements
    /\ bugs = <<"b1", "b2", "b1">>
    /\ Len(improvements) = 3
    /\ total_score = 100

\* two strings are equal up to the case of their letters
CasePairs == {{"E", "e"}, {"A", "a"}, {"S", "s"}, {"Y", "y"},
              {"H", "h"}, {"R", "r"}, {"D", "d"}}
SameIgnoringCase(a, b) ==
    /\ Len(a) = Len(b)
    /\ \A i \in DOMAIN a : a[i] = b[i] \/ {a[i], b[i]} \in CasePairs

\* C4: get_challenge_by_difficulty(d) returns a catalog record whose difficulty
\* equals d case-insensitively, or None; None exactly when no record matches;
\* never a record of another difficulty, whatever the random choice picks.
C4_SelectionWithinDifficulty ==
    pc = "get_challenge_by_difficulty" =>
        LET matching == {c \in Range(code_samples) :
                            SameIgnoringCase(c.difficulty, difficulty_arg)}
        IN  /\ selected = None <=> matching = {}
            /\ selected # None => selected \in matching

C4_Witness ==
    /\ pc = "get_challenge_by_difficulty"
    /\ difficulty_arg = <<"h", "A", "r", "D">>
    /\ selected = code_samples[2]

\* C5: the bug and improvement sub-scores count raw list length and saturate at 3:
\* below 3 entries the sub-score is n/3 (repeated entries counted separately),
\* from 3 entries on the score equals the score with 3 entries.
SaturatesAtThree(entries, sub_score, Pool, Rescore(_)) ==
    /\ Len(entries) < 3 => sub_score = Rat(Len(entries), 3)
    /\ Len(entries) >= 3 =>
          /\ REq(sub_score, Rat(1, 1))
          /\ Rescore(SubSeq(entries, 1, 3)) = total_score
          /\ \A more \in SeqsUpTo(Pool, 2) : Rescore(entries \o more) = total_score

C5_CountScoresSaturate ==
    Returned =>
        /\ SaturatesAtThree(bugs, bug_score, BugPool,
                LAMBDA b : ScoreOfCall(requirements, b, improvements))
        /\ SaturatesAtThree(improvements, imp_score, ImpPool,
                LAMBDA i : ScoreOfCall(requirements, bugs, i))

C5_Witness ==
    /\ Returned
    /\ bugs = <<"b1", "b2", "b2">>
    /\ improvements = <<"i1", "i1">>
    /\ REq(bug_score, Rat(1, 1))
    /\ imp_score = Rat(2, 3)

\* C6: appending a string of the answer key never lowers the score; appending a
\* string that is not in the key (also one differing only in letter case)
\* leaves the score unchanged; bugs and improvements held fixed.
AppendCandidates ==
    ReqPool \cup UNION {Range(code_samples[k].expected_requirements) :
                            k \in DOMAIN code_samples}

C6_RequirementScoreMonotone ==
    Returned =>
        \A s \in AppendCandidates :
            LET after == ScoreOfCall(Append(requirements, s), bugs, improvements)
            IN  IF s \in Range(KeyOf(challenge_id))
                THEN after >= total_score
                ELSE after = total_score

C6_Witness ==
    /\ Returned
    /\ challenge_id = 1
    /\ requirements = <<"Division with zero check", "division with zero check">>
    /\ bugs = <<>>
    /\ improvements = <<>>
    /\ total_score = 7

\* C7: for every challenge, evaluate_response(id, [], [], []) returns exactly 0.0
\* and raises nothing; an empty list gives its component a sub-score of 0.
C7_EmptyListsScoreZero ==
    (Evaluated /\ challenge_id \in CatalogIds) =>
        /\ raised = ""
        /\ requirements = <<>> => REq(req_score, Rat(0, 1))
        /\ bugs = <<>> => REq(bug_score, Rat(0, 1))
        /\ improvements = <<>> => REq(imp_score, Rat(0, 1))
        /\ (requirements = <<>> /\ bugs = <<>> /\ improvements = <<>>)
              => total_score = 0

C7_Witness ==
    /\ Returned
    /\ challenge_id = 2
    /\ requirements = <<>>
    /\ bugs = <<>>
    /\ improvements = <<>>
    /\ total_score = 0

\* C8: with a challenge id no catalog record has, evaluate_response fails with
\* an exception before any sub-score is computed and returns no score.
C8_UnknownIdRaises ==
    (Evaluated /\ challenge_id \notin CatalogIds) => raised = "StopIteration"

C8_Witness ==
    /\ Evaluated
    /\ challenge_id = 3
    /\ requirements = <<"Division with zero check">>
    /\ Len(bugs) = 3
    /\ raised = "StopIteration"

-----------------------------------------------------------------------------
(* Properties of the script main(), checked under SpecUI *)

\* a step in which evaluate_response scores a submission
ScoredStep == scored_since_get' = scored_since_get + 1

\* C9: a submission is scored only in a run where a challenge is selected, the
\* submitted flag was False, the 45 minutes since the last Get Challenge have not
\* elapsed at the timer check, and team name and email are non-empty; so at most
\* one submission is scored per Get Challenge, and none once time is up.
C9_ScoredOnlyWhileOpen ==
    [][ScoredStep =>
          /\ challenge # None
          /\ submitted = FALSE
          /\ start_time # NoTime
          /\ (now - start_time) * TickMinutes < TimeLimit
          /\ team_name # "" /\ candidate_email # ""
          /\ scored_since_get = 0
          /\ time_up = FALSE
          /\ challenge_id' = challenge.id]_vars

C9_Witness ==
    /\ pc = "main"
    /\ scored_since_get = 1
    /\ challenge_id = 2
    /\ submitted
    /\ start_time = 3
    /\ now = 5
    /\ ~time_up

\* C10: after every scored submission both channels were attempted once each,
\* the sheet first and the email second; every failure of either is turned into
\* a False result, and the reported outcome is one of the four combinations.
C10_BothChannelsReported ==
    (pc = "main" /\ challenge_id # 0) =>
        /\ channel_log = <<"save_to_google_sheet", "send_email_with_pdf">>
        /\ sheet_saved \in {"True", "False"}
        /\ email_sent \in {"True", "False"}
        /\ message = outcome_message(sheet_saved, email_sent)

=============================================================================
